---- MODULE Spec2Model ----
(***************************************************************************)
(* Model of bin/sframe_clear_server.py: the command-line script that opens *)
(* a connection to a PROOF server and clears its PAR packages.            *)
(*                                                                         *)
(* The state is the position of one invocation inside main(), its local    *)
(* variables, and the ordered trace of everything observable from outside: *)
(* the lines printed and the calls made on the external ROOT capability    *)
(* together with what they returned.  The record of the previous           *)
(* invocation is kept so that two invocations can be compared.             *)
(***************************************************************************)
EXTENDS Integers, Sequences, FiniteSets

VARIABLES pc, argv, server, unrec, proof, trace, status, prev

vars == <<pc, argv, server, unrec, proof, trace, status, prev>>

(* ------------------------------ bounds -------------------------------- *)

\* longest command line explored
MaxArgs == 3

\* ClearPackages() statuses explored: -MaxStatus .. MaxStatus
MaxStatus == 1

(* --------------------------- command line ----------------------------- *)

\* A command-line word as optparse classifies it (optparse._process_args):
\* "--name[=value]" is a long option, "-x" a short option, "--" the
\* terminator, anything else a positional word.  text is the word itself.
LongTok(name, hasval, val, text) ==
    [kind |-> "long", name |-> name, hasval |-> hasval, val |-> val, text |-> text]

ShortTok(name, text) ==
    [kind |-> "short", name |-> name, hasval |-> FALSE, val |-> "", text |-> text]

WordTok(text) ==
    [kind |-> "word", name |-> "", hasval |-> FALSE, val |-> "", text |-> text]

DDashTok ==
    [kind |-> "ddash", name |-> "", hasval |-> FALSE, val |-> "", text |-> "--"]

Tokens ==
    { ShortTok("s", "-s"),
      LongTok("server", TRUE, "pod1", "--server=pod1"),
      LongTok("version", FALSE, "", "--version"),
      ShortTok("h", "-h"),
      LongTok("bogus", FALSE, "", "--bogus"),
      WordTok("pod2"),
      DDashTok }

RECURSIVE SeqsUpTo(_, _)
SeqsUpTo(S, n) ==
    IF n = 0 THEN { <<>> }
    ELSE LET shorter == SeqsUpTo(S, n - 1)
         IN  shorter \cup { Append(s, x) : s \in shorter, x \in S }

Argvs == SeqsUpTo(Tokens, MaxArgs)

(* ------------------------- the option parser -------------------------- *)

\* default="localhost" of the -s/--server option
\* (variant: another default address)
DefaultServer_Other == "127.0.0.1"

DefaultServer == "localhost"

\* The options the parser knows: the one added by add_option, plus the
\* --version option (added because version= is given) and the -h/--help
\* option that OptionParser adds by itself.  The result is the action of
\* the option, "none" when there is no such option.
LongOpt(name) ==
    CASE name = "server"  -> "store"
      [] name = "version" -> "version"
      [] name = "help"    -> "help"
      [] OTHER            -> "none"

ShortOpt(name) ==
    CASE name = "s" -> "store"
      [] name = "h" -> "help"
      [] OTHER      -> "none"

\* Option.takes_value(): the store action with type="string" takes one value.
TakesValue(action) == action = "store"

\* What an action does to the parse: "store" continues, "help" and "version"
\* print and leave the process (parser.exit()).
\* (variant: the help and version actions return to the parse)
take_action_NoExit(action) == "continue"

take_action(action) ==
    CASE action = "help"    -> "help"
      [] action = "version" -> "version"
      [] OTHER              -> "continue"

ParseResult(exit, srv, args) == [exit |-> exit, server |-> srv, args |-> args]

\* OptionParser._process_args with allow_interspersed_args (the default):
\* rargs are the words still to read, largs the positional words collected,
\* srv the current value of options.server.
RECURSIVE process_args(_, _, _)
process_args(rargs, largs, srv) ==
    IF rargs = <<>> THEN ParseResult("none", srv, largs)
    ELSE
      LET arg  == Head(rargs)
          rest == Tail(rargs)
      IN
      CASE arg.kind = "ddash" -> ParseResult("none", srv, largs \o rest)
        [] arg.kind = "word"  -> process_args(rest, Append(largs, arg.text), srv)
        [] OTHER ->
           LET action == IF arg.kind = "long" THEN LongOpt(arg.name)
                                               ELSE ShortOpt(arg.name)
           IN
           IF action = "none" THEN ParseResult("error", srv, <<>>)
           ELSE IF TakesValue(action) THEN
                  IF arg.hasval THEN process_args(rest, largs, arg.val)
                  ELSE IF rest = <<>> THEN ParseResult("error", srv, <<>>)
                  ELSE process_args(Tail(rest), largs, Head(rest).text)
           ELSE IF arg.hasval THEN ParseResult("error", srv, <<>>)
           ELSE IF take_action(action) = "continue"
                  THEN process_args(rest, largs, srv)
                  ELSE ParseResult(take_action(action), srv, <<>>)

\* parser.parse_args(): values start from the defaults, args = largs + rargs
parse_args(args) == process_args(args, <<>>, DefaultServer)

(* --------------------------- observable events ------------------------ *)

\* One entry of the trace: a printed line (ev = "print"), a call on the
\* external capability (ev = "call") or what such a call returned
\* (ev = "ret").  arg carries the text involved (a server name, or the
\* answer of Open / IsValid), val the integer ClearPackages() returned.
Event(ev, what, arg, val) == [ev |-> ev, what |-> what, arg |-> arg, val |-> val]

Line(what, arg) == Event("print", what, arg, 0)
Call(what, arg)  == Event("call", what, arg, 0)
Ret(what, arg, val) == Event("ret", what, arg, val)

\* print "ERROR:" / message / "ERROR:" of the connection failure
ConnErrorBlock(srv) ==
    << Line("ERROR:", ""), Line("ERROR: Coulnd't connect to PROOF server: ", srv),
       Line("ERROR:", "") >>

\* print "ERROR:" / message / "ERROR:" of the failed clear
\* (variant: the message without options.server)
ClearErrorBlock_NoServer(srv) ==
    << Line("ERROR:", ""),
       Line("ERROR: There was a problem clearing the packages from server ", ""),
       Line("ERROR:", "") >>

ClearErrorBlock(srv) ==
    << Line("ERROR:", ""),
       Line("ERROR: There was a problem clearing the packages from server ", srv),
       Line("ERROR:", "") >>

SuccessLine(srv) == << Line("PAR packages cleared from server ", srv) >>

OpeningLine(srv) == << Line("Opening connection to PROOF server: ", srv) >>

(* ------------------------------ statuses ------------------------------ *)

\* return 255 after the connection failure
ConnFailStatus == 255

\* return 255 after the failed clear
ClearFailStatus == 255

\* return 0 at the end of main()
SuccessStatus == 0

\* optparse: parser.error() leaves the process with status 2,
\* the help and version actions with status 0
ParserErrorStatus == 2

ParserExitStatus == 0

\* an exception nobody catches ends the interpreter with status 1
UncaughtStatus == 1

\* What the external capability can answer.
OpenAnswers == {"present", "absent"}

IsValidAnswers == {"true", "false"}

ClearStatuses == (0 - MaxStatus) .. MaxStatus

(* --------------------------- branches of main() ----------------------- *)

\* if len( unrec ):
HasUnrec(u) == Len(u) # 0

\* the statement main() reaches after the unrecognised-option check
\* (variant: line 39 left out)
AfterUnrecCheck_NoAnnounce == "call_open"

AfterUnrecCheck == "announce"

\* ( not proof ) : the left operand of the "or"; when it is true the right
\* operand is not evaluated
\* (variant: the test without its left operand)
AfterOpen_NoAbsentTest(answer) == "call_isvalid"

AfterOpen(answer) == IF answer = "absent" THEN "conn_failed" ELSE "call_isvalid"

\* ( not proof.IsValid() ) : the right operand
\* (variant: the answer of IsValid() not looked at)
AfterIsValid_Ignored(answer) == "call_clear"

AfterIsValid(answer) == IF answer = "false" THEN "conn_failed" ELSE "call_clear"

\* proof.ClearPackages() != 0
\* (variants: > 0 in place of != 0; == 0 in place of != 0)
ClearFailed_PositiveOnly(rc) == rc > 0

ClearFailed_Inverted(rc) == rc = 0

ClearFailed(rc) == rc # 0

\* the connection-failure branch ends with "return 255"
\* (variant: the connection is tried again instead of returning)
AfterConnFailed_Retry == "call_open"

AfterConnFailed == "exited"

(* ------------------------------ the state ----------------------------- *)

\* a local variable that has no value yet
Unset == <<>>

Init ==
    /\ pc = "idle"
    /\ argv = <<>>
    /\ server = Unset
    /\ unrec = Unset
    /\ proof = Unset
    /\ trace = <<>>
    /\ status = {}
    /\ prev = <<>>

\* sys.exit( main() ) with the command line a: a new call of main(), whose
\* locals start unset.  prev is the observer's note of the invocation that
\* has just finished, kept when the command line is repeated.
Invoke(a) ==
    /\ pc \in {"idle", "exited"}
    /\ pc' = "parse_args"
    /\ argv' = a
    /\ server' = Unset
    /\ unrec' = Unset
    /\ proof' = Unset
    /\ trace' = <<>>
    /\ status' = {}
    /\ prev' = IF pc = "exited" /\ a = argv
                 THEN << [argv |-> argv, trace |-> trace, status |-> status] >>
                 ELSE <<>>

\* ( options, unrec ) = parser.parse_args(), when the parser returns
ParseArgs ==
    /\ pc = "parse_args"
    /\ parse_args(argv).exit = "none"
    /\ server' = << parse_args(argv).server >>
    /\ unrec' = << parse_args(argv).args >>
    /\ pc' = "check_unrec"
    /\ UNCHANGED <<argv, proof, trace, status, prev>>

\* parser.parse_args(), when the parser itself ends the process: the help
\* and version actions print and exit, an error prints the usage and exits
ParseExit ==
    /\ pc = "parse_args"
    /\ parse_args(argv).exit # "none"
    /\ trace' = Append(trace, Line(parse_args(argv).exit, ""))
    /\ status' = IF parse_args(argv).exit = "error" THEN {ParserErrorStatus}
                                                   ELSE {ParserExitStatus}
    /\ pc' = "exited"
    /\ UNCHANGED <<argv, server, unrec, proof, prev>>

\* if len( unrec ): false
NoUnrec ==
    /\ pc = "check_unrec"
    /\ ~HasUnrec(unrec[1])
    /\ pc' = AfterUnrecCheck
    /\ UNCHANGED <<argv, server, unrec, proof, trace, status, prev>>

\* if len( unrec ): true.  The first print succeeds; the second one adds the
\* list unrec to a string, which raises TypeError; nothing catches it.
WarnUnrec ==
    /\ pc = "check_unrec"
    /\ HasUnrec(unrec[1])
    /\ trace' = trace \o << Line("WARNING:", ""), Line("TypeError", "") >>
    /\ status' = {UncaughtStatus}
    /\ pc' = "exited"
    /\ UNCHANGED <<argv, server, unrec, proof, prev>>

\* print "Opening connection to PROOF server: " + options.server
Announce ==
    /\ pc = "announce"
    /\ trace' = trace \o OpeningLine(server[1])
    /\ pc' = "call_open"
    /\ UNCHANGED <<argv, server, unrec, proof, status, prev>>

\* proof = ROOT.TProof.Open( options.server ), then the test ( not proof )
CallOpen(answer) ==
    /\ pc = "call_open"
    /\ trace' = trace \o << Call("Open", server[1]), Ret("Open", answer, 0) >>
    /\ proof' = << answer >>
    /\ pc' = AfterOpen(answer)
    /\ UNCHANGED <<argv, server, unrec, status, prev>>

\* proof.IsValid()
CallIsValid(answer) ==
    /\ pc = "call_isvalid"
    /\ trace' = trace \o << Call("IsValid", ""), Ret("IsValid", answer, 0) >>
    /\ pc' = AfterIsValid(answer)
    /\ UNCHANGED <<argv, server, unrec, proof, status, prev>>

\* the body of the first if: the error block, return 255
ConnFailed ==
    /\ pc = "conn_failed"
    /\ trace' = trace \o ConnErrorBlock(server[1])
    /\ status' = {ConnFailStatus}
    /\ pc' = AfterConnFailed
    /\ UNCHANGED <<argv, server, unrec, proof, prev>>

\* if proof.ClearPackages() != 0: with both branches and the final return
CallClear(rc) ==
    /\ pc = "call_clear"
    /\ trace' = trace \o << Call("ClearPackages", ""), Ret("ClearPackages", "", rc) >>
               \o (IF ClearFailed(rc) THEN ClearErrorBlock(server[1])
                                      ELSE SuccessLine(server[1]))
    /\ status' = IF ClearFailed(rc) THEN {ClearFailStatus} ELSE {SuccessStatus}
    /\ pc' = "exited"
    /\ UNCHANGED <<argv, server, unrec, proof, prev>>

Next ==
    \/ \E a \in Argvs : Invoke(a)
    \/ ParseArgs
    \/ ParseExit
    \/ NoUnrec
    \/ WarnUnrec
    \/ Announce
    \/ \E answer \in OpenAnswers : CallOpen(answer)
    \/ \E answer \in IsValidAnswers : CallIsValid(answer)
    \/ ConnFailed
    \/ \E rc \in ClearStatuses : CallClear(rc)

Spec == Init /\ [][Next]_vars

(* ------------------------ reading the trace --------------------------- *)

IsCall(e, op) == e.ev = "call" /\ e.what = op

IsRet(e, op) == e.ev = "ret" /\ e.what = op

IsAnyCall(e) == e.ev = "call"

CallsOf(t, op) == { i \in DOMAIN t : IsCall(t[i], op) }

IsOpening(e) == e.ev = "print" /\ e.what = "Opening connection to PROOF server: "

IsWarning(e) == e.ev = "print" /\ e.what = "WARNING:"

IsSuccess(e) == e.ev = "print" /\ e.what = "PAR packages cleared from server "

IsConnError(e) == e.ev = "print" /\ e.what = "ERROR: Coulnd't connect to PROOF server: "

IsClearError(e) ==
    e.ev = "print" /\ e.what = "ERROR: There was a problem clearing the packages from server "

IsBanner(e) == e.ev = "print" /\ e.what = "ERROR:"

IsOutcome(e) == IsSuccess(e) \/ IsConnError(e) \/ IsClearError(e) \/ IsBanner(e)

\* the invocation got as far as calling TProof.Open
ReachedConnection(t) == CallsOf(t, "Open") # {}

OpenGavePresent(t) == \E i \in DOMAIN t : IsRet(t[i], "Open") /\ t[i].arg = "present"

OpenGaveAbsent(t) == \E i \in DOMAIN t : IsRet(t[i], "Open") /\ t[i].arg = "absent"

IsValidGave(t, answer) == \E i \in DOMAIN t : IsRet(t[i], "IsValid") /\ t[i].arg = answer

ClearGaveZero(t) == \E i \in DOMAIN t : IsRet(t[i], "ClearPackages") /\ t[i].val = 0

ClearGaveNonzero(t) == \E i \in DOMAIN t : IsRet(t[i], "ClearPackages") /\ t[i].val # 0

\* the server name TProof.Open was called with
OpenedServers(t) == { t[i].arg : i \in CallsOf(t, "Open") }

(* ------------------------------- C1 ----------------------------------- *)

\* C1: an invocation that reached the connection step ends with status 0
\* exactly when Open returned a present handle, IsValid() was true and
\* ClearPackages() returned 0; in every other case it ends with status 255.
C1_StatusContract ==
    (pc = "exited" /\ ReachedConnection(trace)) =>
        /\ status \in { {0}, {255} }
        /\ status = {0} <=>
             (OpenGavePresent(trace) /\ IsValidGave(trace, "true") /\ ClearGaveZero(trace))

\* a finished invocation whose ClearPackages() returned a negative status
C1_Witness ==
    /\ pc = "exited"
    /\ \E i \in DOMAIN trace : IsRet(trace[i], "ClearPackages") /\ trace[i].val < 0
    /\ status = {255}

(* ------------------------------- C2 ----------------------------------- *)

\* C2: ClearPackages() is called only after Open returned a present handle
\* and IsValid() returned true, in that order; after an absent handle or an
\* IsValid() of false it is never called.
C2_ClearOnlyWhenValid ==
    /\ \A k \in CallsOf(trace, "ClearPackages") :
          \E i, j \in 1 .. (k - 1) :
             /\ i < j
             /\ IsRet(trace[i], "Open") /\ trace[i].arg = "present"
             /\ IsRet(trace[j], "IsValid") /\ trace[j].arg = "true"
    /\ (OpenGaveAbsent(trace) \/ IsValidGave(trace, "false")) =>
          CallsOf(trace, "ClearPackages") = {}

\* a finished invocation whose handle was present and reported itself invalid
C2_Witness ==
    /\ pc = "exited"
    /\ OpenGavePresent(trace)
    /\ IsValidGave(trace, "false")

(* ------------------------------- C3 ----------------------------------- *)

\* a word of the command line that the parser has no option for
Unrecognised(tok) ==
    \/ tok.kind = "word"
    \/ tok.kind = "long" /\ LongOpt(tok.name) = "none"
    \/ tok.kind = "short" /\ ShortOpt(tok.name) = "none"

\* a complete --server=VALUE word: it neither ends the parse nor takes the
\* next word
CompleteServerOpt(tok) == tok.kind = "long" /\ LongOpt(tok.name) = "store" /\ tok.hasval

\* a command line made of unrecognised words and complete server options,
\* with at least one unrecognised word
OnlyUnrecognisedExtra(a) ==
    /\ \E i \in DOMAIN a : Unrecognised(a[i])
    /\ \A i \in DOMAIN a : Unrecognised(a[i]) \/ CompleteServerOpt(a[i])

\* C3: an unrecognised flag or argument does not stop the rest of main():
\* the warning is printed, the session open is still attempted and the
\* status is 0 or 255 as the connection and the clear operation decide.
C3_UnrecognisedDoesNotAbort ==
    (pc = "exited" /\ OnlyUnrecognisedExtra(argv)) =>
        /\ \E i \in DOMAIN trace : IsWarning(trace[i])
        /\ ReachedConnection(trace)
        /\ status \in { {0}, {255} }

(* ------------------------------- C4 ----------------------------------- *)

IsServerOpt(tok) ==
    \/ tok.kind = "long" /\ LongOpt(tok.name) = "store"
    \/ tok.kind = "short" /\ ShortOpt(tok.name) = "store"

ServerOptAt(a) == { i \in DOMAIN a : IsServerOpt(a[i]) }

\* every value the command line offers to -s/--server: the VALUE of a
\* --server=VALUE word, the word that follows a -s
OfferedValues(a) ==
    { a[i].val : i \in { j \in ServerOptAt(a) : a[j].hasval } }
      \cup { a[i + 1].text : i \in { j \in ServerOptAt(a) : ~a[j].hasval /\ j < Len(a) } }

\* C4: TProof.Open receives "localhost" when the command line has no
\* -s/--server (in particular when it is empty), and otherwise a value given
\* with -s/--server, character for character whatever that value looks
\* like; with a single -s/--server it is that option's value.
C4_AddressPassedThrough ==
    \A srv \in OpenedServers(trace) :
        /\ ServerOptAt(argv) = {} => srv = "localhost"
        /\ ServerOptAt(argv) # {} => srv \in OfferedValues(argv)
        /\ \A i \in ServerOptAt(argv) :
              ServerOptAt(argv) = {i} =>
                 srv = IF argv[i].hasval THEN argv[i].val ELSE argv[i + 1].text

\* Open was called with a value that looks like an option: it was given
\* to -s and passed on as it stood
C4_Witness ==
    /\ Len(argv) = 2
    /\ argv[1].text = "-s"
    /\ OpenedServers(trace) = { "--version" }

(* ------------------------------- C5 ----------------------------------- *)

\* the places of the trace holding a message that tells the outcome
OutcomeMessages(t) ==
    { i \in DOMAIN t : IsSuccess(t[i]) \/ IsConnError(t[i]) \/ IsClearError(t[i]) }

\* an ERROR block at i-1 .. i+1: banner, message naming srv, banner
ErrorBlockAt(t, i, srv) ==
    /\ i > 1 /\ i < Len(t)
    /\ IsBanner(t[i - 1]) /\ IsBanner(t[i + 1])
    /\ t[i].arg = srv

\* C5: an invocation that reached the connection step has printed, when it
\* returns, exactly one outcome diagnostic, naming the server: the success
\* line if and only if the status is 0, an ERROR block if and only if the
\* status is 255, with the connection wording for an absent or invalid
\* handle and the clearing wording for a nonzero ClearPackages() status.
C5_OneMatchingDiagnostic ==
    /\ Cardinality(OutcomeMessages(trace)) <= 1
    /\ (pc = "exited" /\ ReachedConnection(trace)) =>
         \E i \in DOMAIN trace : \E srv \in OpenedServers(trace) :
            /\ OutcomeMessages(trace) = {i}
            /\ IsSuccess(trace[i]) <=> status = {0}
            /\ IsSuccess(trace[i]) => trace[i].arg = srv /\ i = Len(trace)
            /\ (IsConnError(trace[i]) \/ IsClearError(trace[i])) <=> status = {255}
            /\ (IsConnError(trace[i]) \/ IsClearError(trace[i])) =>
                   ErrorBlockAt(trace, i, srv) /\ i + 1 = Len(trace)
            /\ IsConnError(trace[i]) <=>
                   (OpenGaveAbsent(trace) \/ IsValidGave(trace, "false"))
            /\ IsClearError(trace[i]) <=> ClearGaveNonzero(trace)

\* a finished invocation that printed the clearing-failure block
C5_Witness ==
    /\ pc = "exited"
    /\ \E i \in DOMAIN trace : IsClearError(trace[i])
    /\ status = {255}

(* ------------------------------- C6 ----------------------------------- *)

\* what the external capability answered, in order
Answers(t) == SelectSeq(t, LAMBDA e : e.ev = "ret")

\* the external capability was used and every answer was a success
StubSucceeded(t) ==
    OpenGavePresent(t) /\ IsValidGave(t, "true") /\ ClearGaveZero(t)

\* C6: when main() is run again with the same command line and the external
\* capability answers as it did the first time, the second invocation makes
\* the same external calls and prints in the same order and ends with the
\* same status as the first; against answers that are all successes the
\* status is 0 both times.  Nothing of the first invocation is left in the
\* locals of main() when the second starts.
C6_Idempotent ==
    /\ (pc = "parse_args") => (server = Unset /\ unrec = Unset /\ proof = Unset)
    /\ (pc = "exited" /\ prev # <<>> /\ prev[1].argv = argv
            /\ Answers(prev[1].trace) = Answers(trace)) =>
         /\ prev[1].trace = trace
         /\ prev[1].status = status
         /\ StubSucceeded(trace) => (status = {0} /\ prev[1].status = {0})

\* the second of two successful invocations with the same command line
C6_Witness ==
    /\ pc = "exited"
    /\ prev # <<>>
    /\ prev[1].argv = argv
    /\ StubSucceeded(prev[1].trace)
    /\ StubSucceeded(trace)
    /\ status = {0}

(* ------------------------------- C7 ----------------------------------- *)

\* an answer of the external capability that makes the invocation fail
IsFailureAnswer(e) ==
    \/ IsRet(e, "Open") /\ e.arg = "absent"
    \/ IsRet(e, "IsValid") /\ e.arg = "false"
    \/ IsRet(e, "ClearPackages") /\ e.val # 0

\* C7: no retry.  One invocation calls Open at most once, IsValid() at most
\* once and ClearPackages() at most once; once the external capability has
\* answered with a failure no further external call is made, and main()
\* returns 255.
C7_NoRetry ==
    /\ Cardinality(CallsOf(trace, "Open")) <= 1
    /\ Cardinality(CallsOf(trace, "IsValid")) <= 1
    /\ Cardinality(CallsOf(trace, "ClearPackages")) <= 1
    /\ \A i, j \in DOMAIN trace :
          (IsFailureAnswer(trace[i]) /\ i < j) => ~IsAnyCall(trace[j])
    /\ (pc = "exited" /\ \E i \in DOMAIN trace : IsFailureAnswer(trace[i])) =>
          status = {255}

\* a finished invocation whose connection failed
C7_Witness ==
    /\ pc = "exited"
    /\ OpenGaveAbsent(trace)
    /\ status = {255}

(* ------------------------------- C8 ----------------------------------- *)

\* C8: the events of one invocation come in a fixed order.  A WARNING line
\* is never preceded by the "Opening connection" line, by an external call
\* or by an outcome diagnostic; the "Opening connection" line naming the
\* server is printed before Open is called with that server, with nothing
\* in between; no outcome diagnostic is printed before Open has returned.
C8_FixedOrder ==
    /\ \A i, j \in DOMAIN trace :
          (IsWarning(trace[j]) /\ i < j) =>
             ~(IsOpening(trace[i]) \/ IsAnyCall(trace[i]) \/ IsOutcome(trace[i]))
    /\ \A j \in CallsOf(trace, "Open") :
          /\ j > 1
          /\ IsOpening(trace[j - 1])
          /\ trace[j - 1].arg = trace[j].arg
    /\ \A i \in DOMAIN trace :
          IsOutcome(trace[i]) => \E j \in 1 .. (i - 1) : IsRet(trace[j], "Open")
    /\ (pc = "call_open") => (trace # <<>> /\ IsOpening(trace[Len(trace)]))

\* a finished invocation that announced the server, called Open and printed
\* an outcome
C8_Witness ==
    /\ pc = "exited"
    /\ ReachedConnection(trace)
    /\ \E i \in DOMAIN trace : IsOpening(trace[i])
    /\ \E i \in DOMAIN trace : IsOutcome(trace[i])

(* ------------------------------- C9 ----------------------------------- *)

IsVersionOrHelp(tok) ==
    \/ tok.kind = "long" /\ tok.name \in {"version", "help"} /\ ~tok.hasval
    \/ tok.kind = "short" /\ tok.name = "h"

\* the word at place i is the value of a -s/--server just before it
RECURSIVE TakenAsValue(_, _)
TakenAsValue(a, i) ==
    /\ i > 1
    /\ IsServerOpt(a[i - 1])
    /\ ~a[i - 1].hasval
    /\ ~TakenAsValue(a, i - 1)

\* the word at place i is read as an option: it is not the value of a
\* -s/--server and no "--" comes before it
OptionPlace(a, i) ==
    /\ ~TakenAsValue(a, i)
    /\ \A j \in 1 .. (i - 1) : a[j].kind = "ddash" => TakenAsValue(a, j)

\* the command line gives the version or the help flag as an option
FlagGiven(a) == \E i \in DOMAIN a : IsVersionOrHelp(a[i]) /\ OptionPlace(a, i)

\* the same, with nothing before the flag that the parser stops at: only
\* positional words and complete --server=VALUE words come before it
FlagReached(a) ==
    \E i \in DOMAIN a :
       /\ IsVersionOrHelp(a[i])
       /\ \A j \in 1 .. (i - 1) : a[j].kind = "word" \/ CompleteServerOpt(a[j])

\* C9: with the version or the help flag the process ends inside
\* parse_args(): the parser prints and exits, Open and ClearPackages() are
\* never called and no "Opening connection" line is printed.  When nothing
\* before the flag stops the parser, what it prints is the version or the
\* help text and the status is 0.
C9_VersionHelpExit ==
    /\ FlagGiven(argv) =>
        /\ \A i \in DOMAIN trace : ~IsAnyCall(trace[i]) /\ ~IsOpening(trace[i])
        /\ pc \in {"parse_args", "exited"}
        /\ pc = "exited" =>
              /\ Len(trace) = 1
              /\ trace[1].ev = "print"
              /\ trace[1].what \in {"version", "help", "error"}
    /\ (FlagReached(argv) /\ pc = "exited") =>
          /\ trace[1].what \in {"version", "help"}
          /\ status = {0}

\* a finished invocation that was given the version flag
C9_Witness ==
    /\ pc = "exited"
    /\ argv # <<>>
    /\ argv[1].text = "--version"
    /\ trace = << Line("version", "") >>

(* ------------------------------- C10 ---------------------------------- *)

\* C10: IsValid() is called only on a present handle, right after Open
\* returned it; after Open returned an absent handle no method is called
\* on it, the connection-failure block is printed and main() returns 255.
C10_IsValidOnlyOnPresent ==
    /\ \A i \in CallsOf(trace, "IsValid") :
          /\ i > 1
          /\ IsRet(trace[i - 1], "Open")
          /\ trace[i - 1].arg = "present"
          /\ proof = << "present" >>
    /\ OpenGaveAbsent(trace) =>
          /\ CallsOf(trace, "IsValid") = {}
          /\ CallsOf(trace, "ClearPackages") = {}
          /\ pc \in {"conn_failed", "exited"}
          /\ pc = "exited" =>
                (status = {255} /\ \E i \in DOMAIN trace : IsConnError(trace[i]))

\* a finished invocation whose Open returned an absent handle
C10_Witness ==
    /\ pc = "exited"
    /\ proof = << "absent" >>
    /\ \E i \in DOMAIN trace : IsConnError(trace[i])

====
